---- MODULE Spec2Model ----
(***************************************************************************)
(* State-machine model of arachnado/rpc/data.py: the websocket handlers    *)
(* that multiplex storage subscriptions over one connection and relay      *)
(* their events (DataRpcWebsocketHandler and its Jobs / Pages subclasses). *)
(*                                                                         *)
(* storages, stored_data, mongo_id_mapping and job_url_mapping are class   *)
(* attributes that the handlers mutate in place (data.py:23, 29, 100,      *)
(* 101), so one value of each is shared by every handler instance.         *)
(* delay_mode and data_hb are rebound on the instance by init_hb           *)
(* (data.py:42-43), so each handler has its own.                           *)
(*                                                                         *)
(* Spec explores routing and delivery between two open handlers (SpecFair  *)
(* with the heartbeats firing); SpecRegistry registration, cancellation    *)
(* and close; SpecHeartbeat the timer's configuration; SpecCancel          *)
(* cancellation among relayed events; SpecReconcile the id and url tables; *)
(* SpecStats the stats payload; SpecJobsQuery and SpecPagesQuery the two   *)
(* query builders.                                                         *)
(***************************************************************************)
EXTENDS Integers, Sequences, FiniteSets, TLC

VARIABLES
    kind,              \* handler -> "jobs" | "pages" (the handler's class)
    status,            \* handler -> "open" | "closed"
    storages,          \* DataRpcWebsocketHandler.storages: id -> record
    links,             \* every storage wrapper ever created, in creation order:
                       \* its handler, its handler_id, whether it still watches
                       \* its store, and whether cancel_subscription popped its
                       \* record
    stored_data,       \* DataRpcWebsocketHandler.stored_data (deque)
    delay_mode,        \* handler -> self.delay_mode
    data_hb,           \* handler -> self.data_hb: timer record, or NoHb
    mongo_id_mapping,  \* JobsDataRpcWebsocketHandler.mongo_id_mapping
    job_url_mapping,   \* JobsDataRpcWebsocketHandler.job_url_mapping
    transport,         \* what _send_event did with each message of the last call
    ret                \* the last call: its name, handler, argument and outcome

vars == <<kind, status, storages, links, stored_data, delay_mode, data_hb,
          mongo_id_mapping, job_url_mapping, transport, ret>>

-----------------------------------------------------------------------------
(* Bounds *)

\* storage wrappers created over a run of SpecRegistry
MaxLinks == 3
\* storage wrappers created over a run of Spec
MaxRelayLinks == 1
\* events held in stored_data at one time
MaxQueue == 2
\* sites of one subscribe_to_pages call in "ids" mode
MaxSites == 2
\* entries of one include or exclude list of subscribe_to_jobs
MaxFilters == 2
\* characters of a job's url
MaxUrlLen == 2

(* Program constants *)

\* DataRpcWebsocketHandler.max_msg_size = 2**20
max_msg_size == 1048576

Sessions == {1, 2}
\* the classes of the two handlers: two jobs handlers, or one of each
SessionKinds == { <<"jobs", "jobs">>, <<"jobs", "pages">> }
CrawlIds == {"j1", "j2"}
\* the crawl ids of the jobs that the subscriptions' queries match ("j2" is a
\* job no storage link ever reports)
TailedIds == {"j1"}
\* cp.jobs: the jobs the crawler process knows, in list order
CpJobs == <<"j1", "j2">>
\* update_delay arguments
UpdateDelays == {0, 100}
\* update_delay arguments of the calls of SpecHeartbeat
HbDelays == {-1, 0, 100, 250}
\* lengths of the json_encode'd message, on either side of the cap
MsgLens == {max_msg_size - 1, max_msg_size}
\* Python None
None == "None"
\* documents a jobs storage link can report: with, and without, "_id" and "urls"
TailedDocs == { [mid |-> "m1", urls |-> "u1"], [mid |-> None, urls |-> None] }
\* the documents the storage links of Spec report
RelayDocs == { [mid |-> "m1", urls |-> "u1"] }
\* The stats value of a stats:changed signal, by Python type: a dict, a str
\* holding the JSON text of a dict or of a number, a str that is not JSON,
\* and None
StatsForms ==
    { [type |-> "dict", val |-> "a=1"], [type |-> "str", val |-> "{a:1}"],
      [type |-> "str", val |-> "5"], [type |-> "str", val |-> "oops"],
      [type |-> "NoneType", val |-> "None"] }
\* the stats values of the signals of Spec
RelayStats == { [type |-> "dict", val |-> "a=1"] }

NoHb == [interval |-> 0, running |-> FALSE]

\* event_types of each handler class
event_types(k) == IF k = "jobs" THEN {"stats:changed"} ELSE {"pages.tailed"}

-----------------------------------------------------------------------------
(* Helpers *)

\* the ids of the links created by handler s, in creation order
IssuedIds(s) ==
    LET own == SelectSeq(links, LAMBDA l : l.owner = s)
    IN  [i \in 1 .. Len(own) |-> own[i].handler_id]

\* The last call: op names it (a write_event call by its event), s is the
\* handler it ran on, val what it returned or raised, arg the subscription id
\* it was given (for a storage link's notification, the link; for a subscribe
\* call, its update_delay) and ids the subscription ids it registered (for
\* stats:changed, the crawl id)
NoRet == [op |-> "none", s |-> 0, val |-> None, arg |-> -1, ids |-> <<>>]

Ret(op, s, val, arg, ids) ==
    [op |-> op, s |-> s, val |-> val, arg |-> arg, ids |-> ids]

-----------------------------------------------------------------------------
(* _send_event: serialise, and hand to the transport only below the cap *)

\* the comparison written <=
_send_event_fate_le(len) == IF len <= max_msg_size THEN "sent" ELSE "dropped"

\* lines 34-38: len(message) < self.max_msg_size
_send_event_fate(len) == IF len < max_msg_size THEN "sent" ELSE "dropped"

\* the transport log after handler s's _send_event(item.event, item.data)
_send_event(log, s, item, path) ==
    Append(log, [conn |-> s, event |-> item.event, data |-> item.data,
                 len |-> item.len,
                 path |-> path, fate |-> _send_event_fate(item.len)])

-----------------------------------------------------------------------------
(* init_hb *)

\* the test without its `not self.data_hb` half
init_hb_fires_any_time(s, update_delay) == update_delay > 0

\* line 41: update_delay > 0 and not self.data_hb (a PeriodicCallback object
\* is true whether it runs or was stopped)
init_hb_fires(s, update_delay) == update_delay > 0 /\ data_hb[s] = NoHb

init_hb_delay_mode(s, update_delay) ==
    IF init_hb_fires(s, update_delay) THEN TRUE ELSE delay_mode[s]

init_hb_data_hb(s, update_delay) ==
    IF init_hb_fires(s, update_delay)
    THEN [interval |-> update_delay, running |-> TRUE]
    ELSE data_hb[s]

-----------------------------------------------------------------------------
(* add_storage_wrapper *)

\* new_id = str(len(self.storages)); an id stands for its decimal string
new_id(st) == Cardinality(DOMAIN st)

\* self.storages[new_id] = {"storage": storage_wrapper, "job_ids": set([])}
add_storage_wrapper_storages(st, link) ==
    LET nid == new_id(st)
    IN  [k \in DOMAIN st \cup {nid} |->
            IF k = nid THEN [storage |-> link, job_ids |-> {}] ELSE st[k]]

\* storage_wrapper.handler_id = new_id; storage_wrapper.subscribe(query=...)
add_storage_wrapper_links(ls, st, s) ==
    Append(ls, [owner |-> s, handler_id |-> new_id(st), watching |-> TRUE,
                cancelled |-> FALSE])

\* registries after n successive add_storage_wrapper calls of handler s
RECURSIVE AddN(_, _, _, _)
AddN(st, ls, s, n) ==
    IF n = 0 THEN [st |-> st, ls |-> ls, ids |-> <<>>]
    ELSE LET r == AddN(add_storage_wrapper_storages(st, Len(ls) + 1),
                       add_storage_wrapper_links(ls, st, s), s, n - 1)
         IN  [st |-> r.st, ls |-> r.ls, ids |-> <<new_id(st)>> \o r.ids]

-----------------------------------------------------------------------------
(* cancel_subscription *)

\* the registry emptied instead
cancel_subscription_storages_clear(st, id) == << >>

\* storage = self.storages.pop(subscription_id, None)
cancel_subscription_storages(st, id) == [k \in DOMAIN st \ {id} |-> st[k]]

\* The popped value is the registry record, a non-empty dict, so `if storage`
\* is taken exactly when the id was registered; the record has no _on_close
\* attribute (the wrapper is under its "storage" key), so line 63 raises
\* AttributeError before `return True` and the wrapper is never told to stop.
cancel_subscription_val(st, id) ==
    IF id \in DOMAIN st THEN "AttributeError" ELSE "False"

\* the wrappers after cancel_subscription: storage._on_close() never reaches
\* the wrapper, which keeps watching; only the cancellation is noted
cancel_subscription_links(ls, st, id) ==
    IF id \in DOMAIN st
    THEN [ls EXCEPT ![st[id].storage].cancelled = TRUE]
    ELSE ls

-----------------------------------------------------------------------------
(* on_close *)

\* for storage in self.storages.values(): storage["storage"]._on_close()
on_close_links(ls, st) ==
    [i \in 1 .. Len(ls) |->
        IF \E k \in DOMAIN st : st[k].storage = i
        THEN [ls[i] EXCEPT !.watching = FALSE] ELSE ls[i]]

\* if self.data_hb: self.data_hb.stop()
on_close_data_hb(hb) == IF hb # NoHb THEN [hb EXCEPT !.running = FALSE] ELSE hb

-----------------------------------------------------------------------------
(* write_event *)

Missing == "Missing"

\* dict.get(key, default)
Get(m, key, default) == IF m[key] = Missing THEN default ELSE m[key]

\* line 113: event == 'jobs.tailed' and "id" in data and handler_id
\* (handler_id is None, here -1, or a non-empty string)
tailed_records(event, data, handler_id) ==
    event = "jobs.tailed" /\ data.id # None /\ handler_id # -1

\* line 114: self.storages[handler_id] raises KeyError for an unregistered id
tailed_raises(st, event, data, handler_id) ==
    tailed_records(event, data, handler_id) /\ handler_id \notin DOMAIN st

\* line 114: self.storages[handler_id]["job_ids"].add(data["id"])
tailed_storages(st, event, data, handler_id) ==
    IF tailed_records(event, data, handler_id)
    THEN [st EXCEPT ![handler_id].job_ids = @ \cup {data.id}]
    ELSE st

\* lines 115-116: mapping[data["id"]] = data.get(field, None)
tailed_mapping(m, event, data, handler_id, value) ==
    IF tailed_records(event, data, handler_id)
    THEN [m EXCEPT ![data.id] = value]
    ELSE m

\* lines 119-131: the stats:changed payload [crawl_id, stats] rewritten
stats_event_data(job_id, stats) ==
    [stats |-> stats,
     stats_dict |-> stats,
     id |-> job_id,
     mid |-> Get(mongo_id_mapping, job_id, ""),
     urls |-> Get(job_url_mapping, job_id, "")]

\* json.loads on the str values of StatsForms: the value a JSON text
\* denotes; a text outside the domain raises ValueError
JsonValue ==
    [text \in {"{a:1}", "5"} |->
        IF text = "5" THEN [type |-> "int", val |-> "5"]
        ELSE [type |-> "dict", val |-> "a=1"]]

\* json.loads(value) returns: value is a str holding JSON text (any other
\* type raises TypeError, any other text ValueError)
json_loads_returns(value) == value.type = "str" /\ value.val \in DOMAIN JsonValue

\* lines 140-145: a stats field that is not a dict is replaced by its
\* json.loads value; when json.loads raises, the field is left as it is
parse_stats(event_data) ==
    IF "stats" \in DOMAIN event_data /\ event_data.stats.type # "dict"
          /\ json_loads_returns(event_data.stats)
    THEN [event_data EXCEPT !.stats = JsonValue[event_data.stats.val]]
    ELSE event_data

\* lines 134-137
allowed(st, job_id) ==
    /\ job_id # None
    /\ \E k \in DOMAIN st : job_id \in st[k].job_ids

\* lines 117-139: stats:changed and jobs:state pass only when allowed
passes(st, event, job_id) ==
    event \in {"stats:changed", "jobs:state"} => allowed(st, job_id)

\* the test without its event_types half
queues_any_event(s, event) == delay_mode[s]

\* lines 146 / 215: event in self.event_types and self.delay_mode
queues(s, event) == event \in event_types(kind[s]) /\ delay_mode[s]

\* lines 146-149 / 215-218 on the deque
deliver_stored(q, s, item) ==
    IF queues(s, item.event) THEN Append(q, item) ELSE q

\* lines 146-149 / 215-218 on the transport
deliver_transport(log, s, item) ==
    IF queues(s, item.event) THEN log ELSE _send_event(log, s, item, "direct")

\* the message {"event": event, "data": data}; len is the length of its
\* json encoding
Item(event, data, len) == [event |-> event, data |-> data, len |-> len]

\* on_spider_closed's loop over self.cp.jobs from position i: the deque and
\* the transport after write_event("jobs:state", job) for each job
RECURSIVE spider_closed_loop(_, _, _, _, _)
spider_closed_loop(q, log, s, i, len) ==
    IF i > Len(CpJobs) THEN [q |-> q, log |-> log]
    ELSE LET item == Item("jobs:state",
                          [id |-> CpJobs[i], mid |-> None, urls |-> None],
                          len)
         IN  IF passes(storages, "jobs:state", CpJobs[i])
             THEN spider_closed_loop(deliver_stored(q, s, item),
                                     deliver_transport(log, s, item),
                                     s, i + 1, len)
             ELSE spider_closed_loop(q, log, s, i + 1, len)

-----------------------------------------------------------------------------
(* send_updates *)

\* deque.pop(), taking from the right
pop(q) == [item |-> q[Len(q)], rest |-> SubSeq(q, 1, Len(q) - 1)]

\* item = self.stored_data.popleft()
popleft(q) == [item |-> Head(q), rest |-> Tail(q)]

\* `return` sits inside the while loop (line 95): one call takes one item
send_updates_stored(q) == IF Len(q) > 0 THEN popleft(q).rest ELSE q

\* return self._send_event(item["event"], item["data"])
send_updates_transport(q, s) ==
    IF Len(q) > 0 THEN _send_event(<< >>, s, popleft(q).item, "hb") ELSE << >>

-----------------------------------------------------------------------------
(* create_jobs_query *)

\* A string is the sequence of its characters; a regular expression is the
\* sequence of its tokens, the operators ".*", "^((?!" and ").)*$" being one
\* token each.
Chars == {"a", "b"}

\* the strings of at most n characters
StringsUpTo(n) == UNION {[1 .. k -> Chars] : k \in 0 .. n}

\* the sequences of at most n elements of S
ListsUpTo(S, n) == UNION {[1 .. k -> S] : k \in 0 .. n}

\* the substrings a client puts in include and exclude
FilterStrs == {<<"a">>, <<"b">>, <<"a", "b">>}

\* the urls of the stored jobs
Urls == StringsUpTo(MaxUrlLen)

\* line 154: {"urls": {'$regex': '.*' + inc_str + '.*'}}
include_condition(inc_str) == [urls |-> [regex |-> <<".*">> \o inc_str \o <<".*">>]]

\* line 156: {"urls": {'$regex': '^((?!' + exc_str + ').)*$'}}
exclude_condition(exc_str) == [urls |-> [regex |-> <<"^((?!">> \o exc_str \o <<").)*$">>]]

\* lines 152-156: one condition per include string, then one per exclude string
jobs_conditions(include, exclude) ==
    [i \in 1 .. Len(include) |-> include_condition(include[i])]
        \o [i \in 1 .. Len(exclude) |-> exclude_condition(exclude[i])]

\* lines 157-162: {} for no condition, the condition itself for one, else
\* {"$and": conditions}; << >> is the empty dict
create_jobs_query(include, exclude) ==
    LET conditions == jobs_conditions(include, exclude)
    IN  IF Len(conditions) = 1 THEN conditions[1]
        ELSE IF Len(conditions) > 0 THEN [and |-> conditions]
        ELSE << >>

\* str occurs in url at position i
OccursAt(str, url, i) ==
    i + Len(str) - 1 <= Len(url) /\ SubSeq(url, i, i + Len(str) - 1) = str

\* the store's $regex match of a url against the two expressions the
\* builder writes: ".*str.*" finds str somewhere in the url, and
\* "^((?!str).)*$" walks the url finding str to start at none of its positions
regex_matches(regex, url) ==
    LET str == SubSeq(regex, 2, Len(regex) - 1)
    IN  IF Head(regex) = ".*"
        THEN \E i \in 1 .. Len(url) + 1 : OccursAt(str, url, i)
        ELSE \A i \in 1 .. Len(url) : ~OccursAt(str, url, i)

\* the store's evaluation of a built query on a job document with this url
RECURSIVE query_matches(_, _)
query_matches(q, url) ==
    IF DOMAIN q = {} THEN TRUE
    ELSE IF "and" \in DOMAIN q
    THEN \A i \in 1 .. Len(q.and) : query_matches(q.and[i], url)
    ELSE IF "or" \in DOMAIN q
    THEN \E i \in 1 .. Len(q.or) : query_matches(q.or[i], url)
    ELSE regex_matches(q.urls.regex, url)

-----------------------------------------------------------------------------
(* create_pages_query *)

\* the keys of site_ids
SiteNames == {"a.com", "b.org", "c.net"}

\* str values a client sends as cursor: none, a 24-digit hexadecimal id, and
\* two that are no id, one of them containing "url_field"
CursorTexts == {"", "64f1a2b3c4d5e6f708091011", "zz", "my_url_field"}

\* the strings ObjectId() accepts; for any other str it raises InvalidId
ValidObjectIds == {"64f1a2b3c4d5e6f708091011"}

\* The values of site_ids by Python type: None, a str (the cursor), and the
\* dict {"url_field": url_field, "id": text}
SiteValues ==
    {[type |-> "NoneType", text |-> "", url_field |-> ""]}
        \cup [type : {"str"}, text : CursorTexts, url_field : {""}]
        \cup [type : {"dict"}, text : CursorTexts \ {"my_url_field"},
              url_field : {"final_url"}]

\* site_ids: a dict in iteration order, as the sequence of its items
SiteIds ==
    {m \in ListsUpTo(SiteNames \X SiteValues, MaxSites) :
        \A i, j \in 1 .. Len(m) : i # j => m[i][1] # m[j][1]}

\* line 234: `if site_ids[site]`: None, "" are false; the dict has two keys
truthy(value) == value.type = "dict" \/ (value.type = "str" /\ value.text # "")

\* line 235: "url_field" in site_ids[site], a key test on a dict and a
\* substring test on a str
has_url_field(value) ==
    \/ value.type = "dict"
    \/ value.type = "str" /\ value.text \in {"my_url_field"}

\* lines 243 / 254: {url_field_name: {"$regex": site + '.*'}}
url_condition(url_field_name, site) ==
    url_field_name :> [regex |-> <<site, ".*">>]

\* lines 242-246
cursor_condition(url_field_name, site, item_id) ==
    [and |-> <<url_condition(url_field_name, site), [id |-> [gt |-> item_id]]>>]

\* lines 236-237: site_ids[site]["url_field"] raises TypeError on a str
site_raises(value) == truthy(value) /\ has_url_field(value) /\ value.type = "str"

\* lines 233-236
site_url_field_name(value) ==
    IF truthy(value) /\ has_url_field(value) THEN value.url_field ELSE "url"

\* lines 232-255: the condition appended for one site that does not raise
site_condition(site, value) ==
    IF truthy(value) /\ value.text \in ValidObjectIds
    THEN cursor_condition(site_url_field_name(value), site, value.text)
    ELSE url_condition(site_url_field_name(value), site)

\* lines 228-261: the query, or the exception that leaves the method
create_pages_query(site_ids) ==
    LET conditions == [i \in 1 .. Len(site_ids) |->
                          site_condition(site_ids[i][1], site_ids[i][2])]
    IN  IF \E i \in 1 .. Len(site_ids) : site_raises(site_ids[i][2])
        THEN [raises |-> "TypeError"]
        ELSE IF Len(conditions) = 1 THEN conditions[1]
        ELSE IF Len(conditions) > 0 THEN [or |-> conditions]
        ELSE << >>

-----------------------------------------------------------------------------
Init ==
    /\ kind \in SessionKinds
    /\ status = [s \in Sessions |-> "open"]
    /\ storages = << >>
    /\ links = << >>
    /\ stored_data = << >>
    /\ delay_mode = [s \in Sessions |-> FALSE]
    /\ data_hb = [s \in Sessions |-> NoHb]
    /\ mongo_id_mapping = [j \in CrawlIds |-> Missing]
    /\ job_url_mapping = [j \in CrawlIds |-> Missing]
    /\ transport = << >>
    /\ ret = NoRet

\* subscribe_to_jobs(include, exclude, update_delay)
subscribe_to_jobs(s, update_delay) ==
    /\ status[s] = "open"
    /\ kind[s] = "jobs"
    /\ delay_mode' = [delay_mode EXCEPT ![s] = init_hb_delay_mode(s, update_delay)]
    /\ data_hb' = [data_hb EXCEPT ![s] = init_hb_data_hb(s, update_delay)]
    /\ LET r == AddN(storages, links, s, 1)
       IN  /\ storages' = r.st
           /\ links' = r.ls
           /\ ret' = Ret("subscribe_to_jobs", s, None, update_delay, r.ids)
    /\ UNCHANGED <<kind, status, stored_data, mongo_id_mapping,
                   job_url_mapping>>
    /\ transport' = << >>

\* subscribe_to_pages(site_ids, update_delay, mode); nsites = len(site_ids)
subscribe_to_pages(s, nsites, update_delay, mode) ==
    /\ status[s] = "open"
    /\ kind[s] = "pages"
    /\ LET n == IF mode = "urls" THEN 1 ELSE IF mode = "ids" THEN nsites ELSE 0
           r == AddN(storages, links, s, n)
       IN  /\ storages' = r.st
           /\ links' = r.ls
           /\ ret' = Ret("subscribe_to_pages", s, mode, update_delay, r.ids)
    /\ delay_mode' = [delay_mode EXCEPT ![s] = init_hb_delay_mode(s, update_delay)]
    /\ data_hb' = [data_hb EXCEPT ![s] = init_hb_data_hb(s, update_delay)]
    /\ UNCHANGED <<kind, status, stored_data, mongo_id_mapping,
                   job_url_mapping>>
    /\ transport' = << >>

\* cancel_subscription(subscription_id), an RPC of either handler class
cancel_subscription(s, id) ==
    /\ status[s] = "open"
    /\ storages' = cancel_subscription_storages(storages, id)
    /\ links' = cancel_subscription_links(links, storages, id)
    /\ ret' = Ret("cancel_subscription", s,
                  cancel_subscription_val(storages, id), id, <<>>)
    /\ UNCHANGED <<kind, status, stored_data, delay_mode, data_hb,
                   mongo_id_mapping, job_url_mapping>>
    /\ transport' = << >>

\* on_close(), also when called again on a closed handler
on_close(s) ==
    /\ status[s] \in {"open", "closed"}
    /\ links' = on_close_links(links, storages)
    /\ data_hb' = [data_hb EXCEPT ![s] = on_close_data_hb(data_hb[s])]
    /\ status' = [status EXCEPT ![s] = "closed"]
    /\ ret' = Ret("on_close", s, None, -1, <<>>)
    /\ UNCHANGED <<kind, storages, stored_data, delay_mode,
                   mongo_id_mapping, job_url_mapping>>
    /\ transport' = << >>

\* send_updates(), run by the PeriodicCallback of handler s while it runs
send_updates(s) ==
    /\ data_hb[s].running
    /\ stored_data' = send_updates_stored(stored_data)
    /\ transport' = send_updates_transport(stored_data, s)
    /\ ret' = Ret("send_updates", s, None, -1, <<>>)
    /\ UNCHANGED <<kind, status, storages, links, delay_mode, data_hb,
                   mongo_id_mapping, job_url_mapping>>

\* Jobs wrapper l calls write_event("jobs.tailed", data, handler_id) on the
\* handler it was created for
jobs_tailed(l, id, doc, len) ==
    LET s == links[l].owner
        hid == links[l].handler_id
        data == [id |-> id, mid |-> doc.mid, urls |-> doc.urls]
        item == Item("jobs.tailed", data, len)
    IN  /\ links[l].watching
        /\ status[s] = "open"
        /\ kind[s] = "jobs"
        /\ IF tailed_raises(storages, "jobs.tailed", data, hid)
           THEN /\ ret' = Ret("jobs.tailed", s, "KeyError", l, <<>>)
                /\ transport' = << >>
                /\ UNCHANGED <<storages, mongo_id_mapping, job_url_mapping,
                               stored_data>>
           ELSE /\ storages' = tailed_storages(storages, "jobs.tailed", data, hid)
                /\ mongo_id_mapping' =
                       tailed_mapping(mongo_id_mapping, "jobs.tailed", data, hid, data.mid)
                /\ job_url_mapping' =
                       tailed_mapping(job_url_mapping, "jobs.tailed", data, hid, data.urls)
                /\ stored_data' = deliver_stored(stored_data, s, item)
                /\ transport' = deliver_transport(<< >>, s, item)
                /\ ret' = Ret("jobs.tailed", s, None, l, <<>>)
        /\ Len(stored_data') <= MaxQueue
        /\ UNCHANGED <<kind, status, links, delay_mode, data_hb>>

\* Pages wrapper l calls write_event("pages.tailed", data, handler_id)
pages_tailed(l, len) ==
    LET s == links[l].owner
        data == [id |-> "p1", mid |-> None, urls |-> None]
        item == Item("pages.tailed", data, len)
    IN  /\ links[l].watching
        /\ status[s] = "open"
        /\ kind[s] = "pages"
        /\ stored_data' = deliver_stored(stored_data, s, item)
        /\ Len(stored_data') <= MaxQueue
        /\ transport' = deliver_transport(<< >>, s, item)
        /\ ret' = Ret("pages.tailed", s, None, l, <<>>)
        /\ UNCHANGED <<kind, status, storages, links, delay_mode, data_hb,
                       mongo_id_mapping, job_url_mapping>>

\* on_stats_changed(changes, crawler): write_event("stats:changed", [crawl_id, changes])
on_stats_changed(s, crawl_id, stats, len) ==
    LET item == Item("stats:changed",
                     parse_stats(stats_event_data(crawl_id, stats)), len)
    IN  /\ status[s] = "open"
        /\ kind[s] = "jobs"
        /\ IF passes(storages, "stats:changed", crawl_id)
           THEN /\ stored_data' = deliver_stored(stored_data, s, item)
                /\ transport' = deliver_transport(<< >>, s, item)
           ELSE /\ stored_data' = stored_data
                /\ transport' = << >>
        /\ Len(stored_data') <= MaxQueue
        /\ ret' = Ret("stats:changed", s, None, -1, <<crawl_id>>)
        /\ UNCHANGED <<kind, status, storages, links, delay_mode, data_hb,
                       mongo_id_mapping, job_url_mapping>>

\* on_spider_closed(spider): write_event("jobs:state", job) for every job
on_spider_closed(s, len) ==
    LET r == spider_closed_loop(stored_data, << >>, s, 1, len)
    IN  /\ status[s] = "open"
        /\ kind[s] = "jobs"
        /\ stored_data' = r.q
        /\ transport' = r.log
        /\ ret' = Ret("on_spider_closed", s, None, -1, <<>>)
        /\ UNCHANGED <<kind, status, storages, links, delay_mode, data_hb,
                       mongo_id_mapping, job_url_mapping>>

\* Routing and delivery: the operations of two handlers while both are open
Next ==
    \/ \E s \in Sessions, d \in UpdateDelays :
          Len(links) < MaxRelayLinks /\ subscribe_to_jobs(s, d)
    \/ \E s \in Sessions, n \in 0 .. MaxSites, d \in UpdateDelays,
          mode \in {"urls", "ids"} :
          subscribe_to_pages(s, n, d, mode) /\ Len(links') <= MaxRelayLinks
    \/ \E s \in Sessions, id \in 0 .. MaxRelayLinks - 1 : cancel_subscription(s, id)
    \/ \E s \in Sessions : send_updates(s)
    \/ \E l \in 1 .. Len(links), id \in TailedIds \cup {None}, doc \in RelayDocs,
          len \in MsgLens : jobs_tailed(l, id, doc, len)
    \/ \E l \in 1 .. Len(links), len \in MsgLens : pages_tailed(l, len)
    \/ \E s \in Sessions, j \in CrawlIds, stats \in RelayStats, len \in MsgLens :
          on_stats_changed(s, j, stats, len)
    \/ \E s \in Sessions, len \in MsgLens : on_spider_closed(s, len)

Spec == Init /\ [][Next]_vars

\* Spec with the heartbeats firing: a started PeriodicCallback calls
\* send_updates again and again until it is stopped (data.py:44-47), and
\* nothing stops it while the handler is open
SpecFair == Spec /\ \A s \in Sessions : WF_vars(send_updates(s))

\* The registry and the handlers' life cycle: registration, cancellation and
\* close, with no event relayed. A cancel_subscription call names one of the
\* ids add_storage_wrapper can have issued; an id that is not registered at
\* the time of the call is an unknown id.
NextRegistry ==
    \/ \E s \in Sessions, d \in UpdateDelays :
          Len(links) < MaxLinks /\ subscribe_to_jobs(s, d)
    \/ \E s \in Sessions, n \in 0 .. MaxSites, d \in UpdateDelays,
          mode \in {"urls", "ids"} :
          subscribe_to_pages(s, n, d, mode) /\ Len(links') <= MaxLinks
    \/ \E s \in Sessions, id \in 0 .. MaxLinks - 1 : cancel_subscription(s, id)
    \/ \E s \in Sessions : on_close(s)

\* one handler of each class
InitRegistry == Init /\ kind = <<"jobs", "pages">>

SpecRegistry == InitRegistry /\ [][NextRegistry]_vars

\* Identifier reconciliation: two jobs handlers whose storage links report
\* documents with and without "_id" and "urls"
NextReconcile ==
    \/ \E s \in Sessions, d \in UpdateDelays :
          Len(links) < MaxRelayLinks /\ subscribe_to_jobs(s, d)
    \/ \E s \in Sessions : send_updates(s)
    \/ \E l \in 1 .. Len(links), id \in TailedIds \cup {None}, doc \in TailedDocs,
          len \in MsgLens : jobs_tailed(l, id, doc, len)
    \/ \E s \in Sessions, j \in CrawlIds, stats \in RelayStats, len \in MsgLens :
          on_stats_changed(s, j, stats, len)

InitReconcile == Init /\ kind = <<"jobs", "jobs">>

SpecReconcile == InitReconcile /\ [][NextReconcile]_vars

\* Cancellation by any id, registered or not, on two jobs handlers that
\* relay events
NextCancel ==
    \/ \E s \in Sessions, d \in UpdateDelays :
          Len(links) < MaxRelayLinks /\ subscribe_to_jobs(s, d)
    \/ \E s \in Sessions, id \in 0 .. MaxRelayLinks : cancel_subscription(s, id)
    \/ \E s \in Sessions : send_updates(s)
    \/ \E l \in 1 .. Len(links), id \in TailedIds, doc \in RelayDocs,
          len \in MsgLens : jobs_tailed(l, id, doc, len)
    \/ \E s \in Sessions, j \in TailedIds, stats \in RelayStats, len \in MsgLens :
          on_stats_changed(s, j, stats, len)

SpecCancel == InitReconcile /\ [][NextCancel]_vars

\* The stats:changed signal with every form of stats value, on two jobs
\* handlers
NextStats ==
    \/ \E s \in Sessions, d \in UpdateDelays :
          Len(links) < MaxRelayLinks /\ subscribe_to_jobs(s, d)
    \/ \E s \in Sessions : send_updates(s)
    \/ \E l \in 1 .. Len(links), id \in TailedIds, doc \in RelayDocs,
          len \in MsgLens : jobs_tailed(l, id, doc, len)
    \/ \E s \in Sessions, j \in CrawlIds, stats \in StatsForms, len \in MsgLens :
          on_stats_changed(s, j, stats, len)

SpecStats == InitReconcile /\ [][NextStats]_vars

\* create_jobs_query(include, exclude) called on handler s: it reads and
\* writes nothing of the handler
call_create_jobs_query(s, include, exclude) ==
    /\ kind[s] = "jobs"
    /\ ret' = Ret("create_jobs_query", s, create_jobs_query(include, exclude),
                  [include |-> include, exclude |-> exclude], <<>>)
    /\ transport' = << >>
    /\ UNCHANGED <<kind, status, storages, links, stored_data, delay_mode,
                   data_hb, mongo_id_mapping, job_url_mapping>>

\* The jobs query builder on every pair of filter lists
NextJobsQuery ==
    \E s \in Sessions, include \in ListsUpTo(FilterStrs, MaxFilters),
       exclude \in ListsUpTo(FilterStrs, MaxFilters) :
       call_create_jobs_query(s, include, exclude)

SpecJobsQuery == InitReconcile /\ [][NextJobsQuery]_vars

\* The heartbeat's configuration: subscribe calls with any update_delay on
\* two handlers, and their close
NextHeartbeat ==
    \/ \E s \in Sessions, d \in HbDelays :
          Len(links) < MaxLinks /\ subscribe_to_jobs(s, d)
    \/ \E s \in Sessions, n \in 0 .. MaxSites, d \in HbDelays,
          mode \in {"urls", "ids"} :
          subscribe_to_pages(s, n, d, mode) /\ Len(links') <= MaxLinks
    \/ \E s \in Sessions : on_close(s)

SpecHeartbeat == InitRegistry /\ [][NextHeartbeat]_vars

\* create_pages_query(site_ids) called on handler s: it reads and writes
\* nothing of the handler
call_create_pages_query(s, site_ids) ==
    /\ kind[s] = "pages"
    /\ ret' = Ret("create_pages_query", s, create_pages_query(site_ids),
                  site_ids, <<>>)
    /\ transport' = << >>
    /\ UNCHANGED <<kind, status, storages, links, stored_data, delay_mode,
                   data_hb, mongo_id_mapping, job_url_mapping>>

\* The pages query builder on every site_ids mapping
NextPagesQuery ==
    \E s \in Sessions, site_ids \in SiteIds : call_create_pages_query(s, site_ids)

SpecPagesQuery == InitRegistry /\ [][NextPagesQuery]_vars

-----------------------------------------------------------------------------
(* Definitions used by the properties *)

\* the handler whose subscription registry record k is
Owner(k) == links[storages[k].storage].owner

\* the subscriptions active on handler s: the registry records of its wrappers
SubsOf(s) == {k \in DOMAIN storages : Owner(k) = s}

\* the registry as handler s sees its own subscriptions, with their job_ids
RegistryOf(s) == [k \in SubsOf(s) |-> storages[k]]

\* crawl id j is in the job_ids of a subscription active on handler s
VisibleOn(s, j) == \E k \in SubsOf(s) : j \in storages[k].job_ids

\* crawl id j is in the job_ids of some record of the registry
VisibleAnywhere(j) == \E k \in DOMAIN storages : j \in storages[k].job_ids

NoDuplicates(seq) ==
    \A i, j \in 1 .. Len(seq) : i # j => seq[i] # seq[j]

IsPrefix(p, q) == Len(p) <= Len(q) /\ SubSeq(q, 1, Len(p)) = p

\* the subscribable event types of each feed, as the specification lists them
Subscribable(k) == IF k = "jobs" THEN {"stats:changed"} ELSE {"pages.tailed"}

\* the events a handler of class k writes
EventsOf(k) ==
    IF k = "jobs" THEN {"jobs.tailed", "stats:changed", "jobs:state"}
    ELSE {"pages.tailed"}

\* the last call was a write_event for a single event
WroteOne == ret.op \in {"jobs.tailed", "pages.tailed", "stats:changed"}

-----------------------------------------------------------------------------
(* C1 *)

\* C1: a stats:changed event for crawl id J is delivered by a handler (sent
\* at once, or queued in delay mode) if and only if J is in the job_ids of a
\* subscription that is active on that handler.
C1_DeliveredIffVisibleOnSession ==
    [][ret'.op = "stats:changed" =>
          ((transport' # << >> \/ stored_data' # stored_data)
              <=> VisibleOn(ret'.s, ret'.ids[1]))]_vars

-----------------------------------------------------------------------------
(* C2 *)

\* C2: the ids that add_storage_wrapper returns to one handler are pairwise
\* different, whatever was cancelled in between.
C2_IdsNeverReused == \A s \in Sessions : NoDuplicates(IssuedIds(s))

-----------------------------------------------------------------------------
(* C3 *)

\* C3: cancel_subscription of an active subscription returns true, removes
\* the subscription from the registry and stops its storage link, without
\* raising; the same call made again returns false.
C3_CancelActive ==
    [][(ret'.op = "cancel_subscription" /\ ret'.arg \in DOMAIN storages) =>
          /\ ret'.val = "True"
          /\ ret'.arg \notin DOMAIN storages'
          /\ ~links'[storages[ret'.arg].storage].watching
          /\ cancel_subscription_val(storages', ret'.arg) = "False"]_vars

-----------------------------------------------------------------------------
(* C4 *)

\* the event written in this step passed routing
C4_Passed ==
    \/ ret'.op \in {"jobs.tailed", "pages.tailed"} /\ ret'.val # "KeyError"
    \/ ret'.op = "stats:changed" /\ VisibleAnywhere(ret'.ids[1])

\* C4: an event that passes routing is appended to stored_data exactly when
\* its type is subscribable on its feed and the handler is in delay mode;
\* otherwise it goes to _send_event at once and stored_data is left alone.
\* The jobs:state events of on_spider_closed are never queued.
C4_QueuedIffSubscribableAndDelayed ==
    [][/\ C4_Passed =>
            IF ret'.op \in Subscribable(kind[ret'.s]) /\ delay_mode[ret'.s]
            THEN /\ transport' = << >>
                 /\ Len(stored_data') = Len(stored_data) + 1
                 /\ IsPrefix(stored_data, stored_data')
                 /\ stored_data'[Len(stored_data')].event = ret'.op
            ELSE /\ stored_data' = stored_data
                 /\ Len(transport') = 1
                 /\ transport'[1].event = ret'.op
                 /\ transport'[1].path = "direct"
                 /\ transport'[1].conn = ret'.s
       /\ ret'.op = "on_spider_closed" =>
            /\ stored_data' = stored_data
            /\ \A i \in 1 .. Len(transport') : transport'[i].path = "direct"
      ]_vars

\* a subscribable event was queued by a handler in delay mode
C4_Witness ==
    /\ WroteOne
    /\ ret.op \in Subscribable(kind[ret.s])
    /\ delay_mode[ret.s]
    /\ transport = << >>
    /\ stored_data # << >>
    /\ stored_data[Len(stored_data)].event = ret.op

-----------------------------------------------------------------------------
(* C5 *)

\* C5: when send_updates returns, stored_data is empty.
C5_HeartbeatDrainsQueue == ret.op = "send_updates" => stored_data = << >>

-----------------------------------------------------------------------------
(* C6 *)

\* C6: events leave stored_data in the order they were appended: send_updates
\* takes the oldest event and hands that event to _send_event, and every
\* other call leaves the queued events in place, adding only behind them.
C6_Fifo ==
    [][IF ret'.op = "send_updates"
       THEN stored_data # << >> =>
               /\ stored_data' = Tail(stored_data)
               /\ Len(transport') = 1
               /\ transport'[1].event = Head(stored_data).event
               /\ transport'[1].data = Head(stored_data).data
               /\ transport'[1].len = Head(stored_data).len
       ELSE IsPrefix(stored_data, stored_data')]_vars

\* send_updates took one of two different queued events
C6_Witness ==
    /\ ret.op = "send_updates"
    /\ Len(transport) = 1
    /\ stored_data # << >>
    /\ \/ transport[1].len # stored_data[1].len
       \/ transport[1].data # stored_data[1].data

-----------------------------------------------------------------------------
(* C7 *)

\* C7: a message of max_msg_size or more is never handed to the transport,
\* on the immediate path or the heartbeat's, for any event type; the call
\* that drops it raises nothing and puts nothing back into stored_data.
C7_NoOversizedMessage ==
    /\ [](\A i \in 1 .. Len(transport) :
            /\ transport[i].fate = "sent" <=> transport[i].len < max_msg_size
            /\ transport[i].fate = "dropped" => ret.val = None)
    /\ [][(\E i \in 1 .. Len(transport') : transport'[i].fate = "dropped") =>
            \/ stored_data' = stored_data
            \/ ret'.op = "send_updates" /\ stored_data' = Tail(stored_data)]_vars

\* the heartbeat dropped a queued message of exactly max_msg_size
C7_Witness ==
    /\ ret.op = "send_updates"
    /\ Len(transport) = 1
    /\ transport[1].path = "hb"
    /\ transport[1].len = max_msg_size
    /\ transport[1].fate = "dropped"

-----------------------------------------------------------------------------
(* C8 *)

\* C8: after on_close, every storage link of the handler whose subscription
\* was not cancelled has been stopped, and the handler's heartbeat timer is
\* not running.
C8_CloseTearsDown ==
    ret.op = "on_close" =>
        /\ \A l \in 1 .. Len(links) :
              (links[l].owner = ret.s /\ ~links[l].cancelled) => ~links[l].watching
        /\ ~data_hb[ret.s].running

-----------------------------------------------------------------------------
(* C9 *)

\* C9: a call on one handler leaves the other handler's subscriptions and
\* their job_ids as they were, and a handler's connection carries only
\* events of its own feed.
C9_SessionsIsolated ==
    /\ [][\A b \in Sessions : ret'.s # b => RegistryOf(b)' = RegistryOf(b)]_vars
    /\ [](\A i \in 1 .. Len(transport) :
            transport[i].event \in EventsOf(kind[transport[i].conn]))

-----------------------------------------------------------------------------
(* C10 *)

\* C10: a notification from the storage link of a cancelled subscription is
\* dropped: nothing is sent or queued, no job_ids set and no mapping changes,
\* and nothing is raised.
C10_StaleNotificationDropped ==
    [][(ret'.op \in {"jobs.tailed", "pages.tailed"} /\ links[ret'.arg].cancelled) =>
          /\ transport' = << >>
          /\ stored_data' = stored_data
          /\ storages' = storages
          /\ mongo_id_mapping' = mongo_id_mapping
          /\ job_url_mapping' = job_url_mapping
          /\ ret'.val = None]_vars

-----------------------------------------------------------------------------
(* C11 *)

\* a value that a tailed document carried, as opposed to None or no entry
Recorded(v) == v \notin {Missing, None}

\* C11: once a jobs.tailed event has recorded the "_id" and "urls" of crawl
\* id J, every stats:changed event for J that is then sent or queued carries
\* the values of the tables, and a later jobs.tailed for J without "_id" or
\* "urls" leaves the recorded values in place.
C11_MappingsKept ==
    /\ [][\A j \in CrawlIds :
            /\ Recorded(mongo_id_mapping[j]) => Recorded(mongo_id_mapping'[j])
            /\ Recorded(job_url_mapping[j]) => Recorded(job_url_mapping'[j])]_vars
    /\ [][ret'.op = "stats:changed" =>
            /\ \A i \in 1 .. Len(transport') :
                  /\ transport'[i].data.mid = Get(mongo_id_mapping, ret'.ids[1], "")
                  /\ transport'[i].data.urls = Get(job_url_mapping, ret'.ids[1], "")
            /\ stored_data' # stored_data =>
                  /\ stored_data'[Len(stored_data')].data.mid =
                        Get(mongo_id_mapping, ret'.ids[1], "")
                  /\ stored_data'[Len(stored_data')].data.urls =
                        Get(job_url_mapping, ret'.ids[1], "")]_vars

-----------------------------------------------------------------------------
(* C12 *)

Contains(url, str) == \E i \in 1 .. Len(url) + 1 : OccursAt(str, url, i)

\* C12: the query create_jobs_query builds matches a url exactly when the
\* url contains at least one include string (or include is empty) and none
\* of the exclude strings.
C12_JobsQueryMatches ==
    ret.op = "create_jobs_query" =>
        \A url \in Urls :
            query_matches(ret.val, url) <=>
                /\ \/ ret.arg.include = << >>
                   \/ \E i \in 1 .. Len(ret.arg.include) :
                         Contains(url, ret.arg.include[i])
                /\ \A i \in 1 .. Len(ret.arg.exclude) :
                         ~Contains(url, ret.arg.exclude[i])

-----------------------------------------------------------------------------
(* C13 *)

\* C13: whatever was registered and cancelled before, subscribe_to_pages
\* adds one registry record per id it returns, the returned ids are pairwise
\* different and none of them was registered before the call; in "urls"
\* mode it returns exactly one id.
C13_PagesSubscriptionsDistinct ==
    [][ret'.op = "subscribe_to_pages" =>
          /\ Cardinality(DOMAIN storages') =
                Cardinality(DOMAIN storages) + Len(ret'.ids)
          /\ Len(ret'.ids) = Len(links') - Len(links)
          /\ NoDuplicates(ret'.ids)
          /\ \A i \in 1 .. Len(ret'.ids) : ret'.ids[i] \notin DOMAIN storages
          /\ ret'.val = "urls" => Len(ret'.ids) = 1]_vars

-----------------------------------------------------------------------------
(* C14 *)

\* the call of this step is a subscribe call on handler s
C14_Subscribes(s) ==
    ret'.op \in {"subscribe_to_jobs", "subscribe_to_pages"} /\ ret'.s = s

\* C14: a handler's heartbeat is configured at most once. A subscribe call
\* with update_delay > 0 on a handler without timer creates a running timer
\* of that interval and sets delay_mode; once a handler has a timer, no call
\* replaces it or changes its interval; a call with update_delay <= 0
\* changes neither timer nor delay_mode; delay_mode, once true, stays true.
C14_HeartbeatConfiguredOnce ==
    [][\A s \in Sessions :
          /\ data_hb[s] # NoHb =>
                /\ data_hb'[s] # NoHb
                /\ data_hb'[s].interval = data_hb[s].interval
                /\ C14_Subscribes(s) => data_hb'[s] = data_hb[s]
          /\ delay_mode[s] => delay_mode'[s]
          /\ (C14_Subscribes(s) /\ ret'.arg <= 0) =>
                data_hb'[s] = data_hb[s] /\ delay_mode'[s] = delay_mode[s]
          /\ (C14_Subscribes(s) /\ ret'.arg > 0 /\ data_hb[s] = NoHb) =>
                /\ data_hb'[s] = [interval |-> ret'.arg, running |-> TRUE]
                /\ delay_mode'[s]
          /\ (data_hb'[s] # data_hb[s] /\ data_hb[s] = NoHb) => C14_Subscribes(s)
      ]_vars

\* a handler whose timer has one interval was then asked for another
C14_Witness ==
    /\ ret.op \in {"subscribe_to_jobs", "subscribe_to_pages"}
    /\ ret.arg > 0
    /\ data_hb[ret.s].running
    /\ data_hb[ret.s].interval # ret.arg
    /\ delay_mode[ret.s]

-----------------------------------------------------------------------------
(* C15 *)

\* C15: cancel_subscription with an id that is not in the registry returns
\* False without raising and changes nothing: not the registry and its
\* job_ids sets, no storage link, neither mapping table, not stored_data,
\* and nothing is sent.
C15_CancelUnknownIsNoOp ==
    [][(ret'.op = "cancel_subscription" /\ ret'.arg \notin DOMAIN storages) =>
          /\ ret'.val = "False"
          /\ storages' = storages
          /\ links' = links
          /\ mongo_id_mapping' = mongo_id_mapping
          /\ job_url_mapping' = job_url_mapping
          /\ stored_data' = stored_data
          /\ delay_mode' = delay_mode
          /\ data_hb' = data_hb
          /\ transport' = << >>]_vars

\* an unknown id was cancelled while a subscription with visible jobs was
\* registered, the tables had entries and an event was queued
C15_Witness ==
    /\ ret.op = "cancel_subscription"
    /\ ret.val = "False"
    /\ ret.arg \notin DOMAIN storages
    /\ \E k \in DOMAIN storages : storages[k].job_ids # {}
    /\ mongo_id_mapping["j1"] # Missing
    /\ stored_data # << >>

-----------------------------------------------------------------------------
(* C16 *)

\* C16: in every stats:changed event that is handed to _send_event or held
\* in stored_data, stats_dict has the value of stats, whatever the type of
\* the stats value of the signal.
C16_StatsDictDuplicatesStats ==
    /\ \A i \in 1 .. Len(transport) :
          transport[i].event = "stats:changed" =>
              transport[i].data.stats_dict = transport[i].data.stats
    /\ \A i \in 1 .. Len(stored_data) :
          stored_data[i].event = "stats:changed" =>
              stored_data[i].data.stats_dict = stored_data[i].data.stats

-----------------------------------------------------------------------------
(* C17 *)

\* the jobs:state events for crawl id j among the messages of the step's call
C17_StateEvents(j) ==
    {i \in 1 .. Len(transport') :
        transport'[i].event = "jobs:state" /\ transport'[i].data.id = j}

\* C17: on_spider_closed writes one jobs:state event per job of cp.jobs; the
\* event of a job is handed to _send_event, once and on the handler's own
\* connection, if and only if the job's crawl id is in the job_ids of a
\* subscription active on that handler; no such event is put into
\* stored_data, whether or not the handler is in delay mode.
C17_SpiderClosedStates ==
    [][ret'.op = "on_spider_closed" =>
          /\ stored_data' = stored_data
          /\ \A i \in 1 .. Len(transport') :
                /\ transport'[i].event = "jobs:state"
                /\ transport'[i].path = "direct"
                /\ transport'[i].conn = ret'.s
          /\ \A n \in 1 .. Len(CpJobs) :
                /\ Cardinality(C17_StateEvents(CpJobs[n])) <= 1
                /\ C17_StateEvents(CpJobs[n]) # {} <=> VisibleOn(ret'.s, CpJobs[n])
      ]_vars

-----------------------------------------------------------------------------
(* C18 *)

\* the cursor of a site: the str itself, or the "id" of the dict
C18_CursorParses(value) == value.text \in ValidObjectIds

\* the field the url condition of a site tests
C18_UrlField(value) == IF value.type = "dict" THEN value.url_field ELSE "url"

\* 'url matches site AND _id > cursor' when the cursor parses, else 'url
\* matches site'
C18_SiteCondition(site, value) ==
    IF C18_CursorParses(value)
    THEN [and |-> <<C18_UrlField(value) :> [regex |-> <<site, ".*">>],
                    [id |-> [gt |-> value.text]]>>]
    ELSE C18_UrlField(value) :> [regex |-> <<site, ".*">>]

\* C18: for every site_ids mapping create_pages_query returns, without
\* raising, the "$or" of one condition per site, which is 'url matches site
\* and _id > cursor' when the site's cursor is a valid ObjectId and 'url
\* matches site' when it is absent or no valid id; no site gives {}, and one
\* site gives its condition unwrapped.
C18_PagesQueryBuilt ==
    ret.op = "create_pages_query" =>
        LET site_ids == ret.arg
            q == ret.val
        IN  /\ "raises" \notin DOMAIN q
            /\ Len(site_ids) = 0 => DOMAIN q = {}
            /\ Len(site_ids) = 1 =>
                  q = C18_SiteCondition(site_ids[1][1], site_ids[1][2])
            /\ Len(site_ids) > 1 =>
                  /\ DOMAIN q = {"or"}
                  /\ Len(q.or) = Len(site_ids)
                  /\ \A i \in 1 .. Len(site_ids) :
                        q.or[i] = C18_SiteCondition(site_ids[i][1], site_ids[i][2])

-----------------------------------------------------------------------------
(* C19 *)

\* C19: every storage wrapper that watches its store is the wrapper of a
\* record of the registry, so that cancel_subscription or on_close can
\* still reach it; and add_storage_wrapper takes away no record's wrapper.
C19_NoOrphanedLink ==
    /\ [](\A l \in 1 .. Len(links) :
            links[l].watching => \E k \in DOMAIN storages : storages[k].storage = l)
    /\ [][ret'.op \in {"subscribe_to_jobs", "subscribe_to_pages"} =>
            \A k \in DOMAIN storages : storages'[k] = storages[k]]_vars

-----------------------------------------------------------------------------
(* C20 *)

\* a heartbeat takes the oldest event out of stored_data
C20_Takes == ret'.op = "send_updates" /\ stored_data # << >>

\* the queue is emptied, or events are taken from it, again and again
C20_Drains == []<>(stored_data = << >>) \/ []<><<C20_Takes>>_vars

\* only a heartbeat takes events out of stored_data, each firing takes the
\* oldest one and hands exactly it to _send_event once, which sends it below
\* the size cap and drops it otherwise
C20_TakenOnce ==
    [][IF C20_Takes
       THEN /\ stored_data' = Tail(stored_data)
            /\ Len(transport') = 1
            /\ transport'[1].event = Head(stored_data).event
            /\ transport'[1].data = Head(stored_data).data
            /\ transport'[1].fate = "sent" <=> Head(stored_data).len < max_msg_size
       ELSE /\ IsPrefix(stored_data, stored_data')
            /\ \A i \in 1 .. Len(transport') : transport'[i].path # "hb"]_vars

\* the connection a heartbeat sends a queued event on is one of a handler
\* that queues events of that type
C20_OwnClient ==
    [][C20_Takes =>
          \A i \in 1 .. Len(transport') :
              transport'[i].event \in event_types(kind[transport'[i].conn])]_vars

\* C20: while the heartbeats keep firing, every event appended to
\* stored_data is eventually taken out of it, exactly once, and is then
\* sent to the client of the handler that queued it or dropped for its size.
C20_QueuedEventuallyDelivered == C20_Drains /\ C20_TakenOnce /\ C20_OwnClient

====
